---- MODULE Spec2Model ----
(***************************************************************************)
(* Model of the JobScraper pipeline (src/main.py): the file lock           *)
(* (acquire_lock / release_lock), the seen-jobs store (load_seen_jobs /    *)
(* save_seen_jobs), one pipeline run (run_daily_scrape_async) and the      *)
(* entry point (main), executed by several operating-system processes that *)
(* share one working directory.                                            *)
(***************************************************************************)
EXTENDS Integers, Sequences, FiniteSets, TLC

(* ------------------------------ bounds -------------------------------- *)

\* processes started with `python main.py` in the same directory
Procs == {"p1", "p2"}

\* urls of the postings the sources can show
Urls == {"u1"}

\* seconds the clock advances in one Tick
TickStep == 900

\* lock ages are tracked up to this many seconds
MaxAge == 1200

\* a posting's title is made of at most this many phrases
MaxTitlePhrases == 2

\* a posting's description is made of at most this many phrases
MaxDescPhrases == 1

\* a page shows at most this many elements, or more than the adapter's cap
MaxElements == 2

\* at most this many selectors of an adapter find elements on a page
MaxHits == 2

\* the deduplication loop is given at most this many Jobs
MaxBatch == 3

\* a run finds at most this many new Jobs of one group
MaxGroup == 11

(* ------------------------- program constants -------------------------- *)

\* acquire_lock: `if lock_age > 900`
STALE_SECONDS == 900

\* scrape_all_jobs: the list `scrapers` has four adapters
NumScrapers == 4

Scrapers == 1..NumScrapers

\* JobPriority values an adapter can return (parse_job drops BLACKLISTED)
Priorities == {"PERFECT_MATCH", "GOOD_MATCH", "WEAK_MATCH", "BLACKLISTED"}

(* ----------------------------- data ----------------------------------- *)

\* the postings the sources show: each url has one classification
PriorityOf(u) == IF u = "u1" THEN "GOOD_MATCH" ELSE "WEAK_MATCH"

Job(u) == [url |-> u, priority |-> PriorityOf(u)]

JobPool(U) == {Job(u) : u \in U}

\* what one adapter's scrape() can do: raise, return [], or return one Job
AdapterOutcomes(U) ==
    {[ok |-> FALSE, jobs |-> <<>>]} \cup
    {[ok |-> TRUE, jobs |-> <<>>]} \cup
    {[ok |-> TRUE, jobs |-> <<j>>] : j \in JobPool(U)}

\* no page can be fetched: every adapter's scrape() returns []
NothingFetched == [i \in Scrapers |-> [ok |-> TRUE, jobs |-> <<>>]]

UrlsOf(js) == {js[i].url : i \in 1..Len(js)}

NoLock == [owner |-> "none", level |-> "none", age |-> 0]

LockRecord(p, lvl) == [owner |-> p, level |-> lvl, age |-> 0]

AbsentFile == [state |-> "absent", urls |-> {}]

PartialFile == [state |-> "partial", urls |-> {}]

ValidFile(s) == [state |-> "valid", urls |-> s]

NoRun == [urls |-> {}, notified |-> {}, saved |-> FALSE, any |-> FALSE]

VARIABLES
    pc,          \* position of each process
    frame,       \* "none": in main; "now"/"sched": inside run_daily_scrape
    pending,     \* exception propagating through the finally blocks
    lock,        \* job_scraper.lock
    file,        \* seen_jobs.json
    lock_age,    \* acquire_lock's local lock_age
    acqResult,   \* value acquire_lock returned, until the caller has tested it
    seen_urls,   \* run_daily_scrape_async's local seen_urls
    new_jobs,    \* run_daily_scrape_async's local new_jobs
    browser,     \* PlaywrightBrowserManager._browser is not None
    hist,        \* history of the current call / run of each process
    prev,        \* history of the last run that ended, when it overlapped no run
                 \* and handed urls to the notifier (NoRun otherwise)
    probe        \* one call of a function of the program: its arguments and result

vars == <<pc, frame, pending, lock, file, lock_age, acqResult, seen_urls,
          new_jobs, browser, hist, prev, probe>>

\* no function has been called on its own
NoProbe == [op |-> "none"]


NewHist ==
    [race |-> FALSE, touched |-> FALSE, found |-> FALSE, obs |-> NoLock,
     creates |-> 0, removed |-> FALSE, owes |-> "never", outcome |-> "none",
     loadObs |-> "none", before |-> {}, batch |-> {}, saveCalls |-> 0, saved |-> FALSE,
     deduped |-> FALSE, notified |-> {}, delivery |-> "none", overlapped |-> FALSE,
     closeCut |-> FALSE, removedLive |-> FALSE]

(* ------------------------- positions of a process --------------------- *)

AcquirePcs == {"acq_create", "acq_mtime", "acq_remove", "acq_retry"}

CheckPcs == {"main_check", "run_check"}

\* between `if not acquire_lock(): return` and the end of the finally block
RunBody == {"run_load", "run_scrape", "save_open", "save_write", "run_notify", "run_finally"}

InRun(p) == pc[p] \in RunBody

InAcquire(p) == pc[p] \in AcquirePcs \cup CheckPcs

\* which acquire_lock call site is active: main() or run_daily_scrape_async()
Level(p) == IF frame[p] = "none" THEN "main" ELSE "run"

(* ------------------------------ helpers ------------------------------- *)

\* mutant: the create without O_EXCL, which opens an existing file too
ExclCreateOverwrite(l) == TRUE

\* os.open(lock_file, O_CREAT | O_EXCL | O_WRONLY) succeeds iff the file is absent
ExclCreateOk(l) == l = NoLock

\* mutant: `if lock_age >= 900`
IsStaleInclusive(age) == age >= STALE_SECONDS

\* `if lock_age > 900`
IsStale(age) == age > STALE_SECONDS

\* `if not acquire_lock(): return` in run_daily_scrape_async
AfterRunCheck(ok) == IF ok THEN "run_load" ELSE "return"

\* `if not acquire_lock(): return` in main
AfterMainCheck(ok) == IF ok THEN "run_now" ELSE "done"

\* mutant: the run body without try/finally
OnRunInterruptNoFinally == "return"

\* an interrupt inside the try block of run_daily_scrape_async runs the finally
OnRunInterrupt == "run_finally"

\* mutant: the notification placed before save_seen_jobs
RunOrderNotifyFirst == <<"run_load", "run_scrape", "run_notify", "save_open", "run_finally">>

\* the statements of the try block of run_daily_scrape_async, in order
RunOrder == <<"run_load", "run_scrape", "save_open", "run_notify", "run_finally">>

StageAfter(stage) ==
    LET i == CHOOSE k \in 1..Len(RunOrder) : RunOrder[k] = stage
    IN  RunOrder[i + 1]

\* where main() continues when run_daily_scrape() returns or raises
AfterRun(fr, pend) ==
    IF pend = "none" THEN "main_loop"
    ELSE IF fr = "sched" /\ pend = "KeyboardInterrupt" THEN "main_except"
    ELSE "main_release"

\* mutant: load_seen_jobs without `return set(seen_urls)`
load_seen_jobs_empty(f, ioerror) == {}

\* mutant: load_seen_jobs without its `except Exception`
load_seen_jobs_unguarded(f, ioerror) == f.urls

\* load_seen_jobs: the set it returns
load_seen_jobs(f, ioerror) ==
    IF f.state = "valid" /\ ~ioerror THEN f.urls ELSE {}

\* what load_seen_jobs found on disk
LoadObservation(f, ioerror) ==
    IF f.state = "absent" THEN "absent"
    ELSE IF f.state = "partial" THEN "partial"
    ELSE IF ioerror THEN "ioerror" ELSE "ok"

\* `filtered_jobs = [j for j in jobs if j.priority != JobPriority.BLACKLISTED]`
RECURSIVE FilterBlacklisted(_)
FilterBlacklisted(js) ==
    IF js = <<>> THEN <<>>
    ELSE IF Head(js).priority = "BLACKLISTED" THEN FilterBlacklisted(Tail(js))
         ELSE <<Head(js)>> \o FilterBlacklisted(Tail(js))

\* mutant: the loop body without `seen_urls.add(job.url)`
DedupStepNoAdd(acc, job) ==
    IF job.url \in acc.seen THEN acc
    ELSE [new |-> Append(acc.new, job), seen |-> acc.seen]

\* the body of the deduplication loop for one job
DedupStep(acc, job) ==
    IF job.url \in acc.seen THEN acc
    ELSE [new |-> Append(acc.new, job), seen |-> acc.seen \cup {job.url}]

\* mutant: the loop over filtered_jobs taken from its last job to its first
RECURSIVE DedupBackwards(_, _)
DedupBackwards(js, acc) ==
    IF js = <<>> THEN acc
    ELSE DedupBackwards(SubSeq(js, 1, Len(js) - 1), DedupStep(acc, js[Len(js)]))

\* the deduplication loop: `for job in filtered_jobs`
RECURSIVE Dedup(_, _)
Dedup(js, acc) ==
    IF js = <<>> THEN acc ELSE Dedup(Tail(js), DedupStep(acc, Head(js)))

\* mutant: the loop over the adapters ends when a scrape() raises
RECURSIVE CollectUntilRaise(_, _)
CollectUntilRaise(outcome, i) ==
    IF i > NumScrapers \/ ~outcome[i].ok THEN <<>>
    ELSE outcome[i].jobs \o CollectUntilRaise(outcome, i + 1)

\* scrape_all_jobs: the adapters' lists in order, a raising adapter adds nothing
RECURSIVE Collect(_, _)
Collect(outcome, i) ==
    IF i > NumScrapers THEN <<>>
    ELSE (IF outcome[i].ok THEN outcome[i].jobs ELSE <<>>) \o Collect(outcome, i + 1)

\* release_lock: `if os.path.exists(lock_file): os.remove(lock_file)`
release_lock(l) == NoLock

\* scrape_all_jobs: `all_jobs` after the loop over the four adapters
scrape_all_jobs(outcome) == Collect(outcome, 1)

\* every list scrape_all_jobs can return when the sources show urls in U
ScrapeResults(U) == {scrape_all_jobs(o) : o \in [Scrapers -> AdapterOutcomes(U)]}

\* history: another process changed the lock file during the calls in progress
Touch(h, p) ==
    [q \in Procs |->
        IF q # p /\ InAcquire(q) THEN [h[q] EXCEPT !.touched = TRUE] ELSE h[q]]

\* history: a release, a removal or a lock record grown stale ends a race of calls
EndRace(h) == [q \in Procs |-> [h[q] EXCEPT !.race = FALSE]]

(* ------------------------------- Init --------------------------------- *)

Init ==
    /\ pc = [p \in Procs |-> "idle"]
    /\ frame = [p \in Procs |-> "none"]
    /\ pending = [p \in Procs |-> "none"]
    /\ lock = NoLock
    /\ file = AbsentFile
    /\ lock_age = [p \in Procs |-> 0]
    /\ acqResult = [p \in Procs |-> FALSE]
    /\ seen_urls = [p \in Procs |-> {}]
    /\ new_jobs = [p \in Procs |-> <<>>]
    /\ browser = [p \in Procs |-> FALSE]
    /\ hist = [p \in Procs |-> NewHist]
    /\ prev = NoRun
    /\ probe = NoProbe


(* ---------------------------- acquire_lock ---------------------------- *)

\* history at the start of an acquire_lock call
BeginAcquire(h) ==
    [h EXCEPT !.race = (lock = NoLock), !.touched = FALSE, !.found = FALSE,
              !.obs = NoLock, !.creates = 0, !.removed = FALSE, !.removedLive = FALSE]

\* history when the caller has tested the value acquire_lock returned
EndAcquire(h) ==
    [h EXCEPT !.race = FALSE, !.touched = FALSE, !.found = FALSE, !.obs = NoLock,
              !.creates = 0, !.removed = FALSE, !.removedLive = FALSE]

\* acquire_lock returns `result` to its caller
AcqReturn(p, result) ==
    /\ acqResult' = [acqResult EXCEPT ![p] = result]
    /\ pc' = [pc EXCEPT ![p] = IF Level(p) = "main" THEN "main_check" ELSE "run_check"]

\* first os.open(..., O_CREAT | O_EXCL | O_WRONLY)
AcqCreate(p) ==
    /\ pc[p] = "acq_create"
    /\ IF ExclCreateOk(lock)
       THEN /\ lock' = LockRecord(p, Level(p))
            /\ hist' = Touch([hist EXCEPT ![p].creates = @ + 1, ![p].owes = "owed"], p)
            /\ AcqReturn(p, TRUE)
       ELSE /\ hist' = [hist EXCEPT ![p].creates = @ + 1, ![p].found = TRUE,
                                    ![p].obs = [lock EXCEPT !.age = 0]]
            /\ pc' = [pc EXCEPT ![p] = "acq_mtime"]
            /\ UNCHANGED <<lock, acqResult>>
    /\ UNCHANGED <<frame, pending, file, lock_age, seen_urls, new_jobs, browser, prev, probe>>

\* `if os.path.exists(lock_file)` (else the final `return False`), then
\* `lock_age = time.time() - os.path.getmtime(lock_file)` and the test of it
AcqMtime(p) ==
    /\ pc[p] = "acq_mtime"
    /\ IF lock = NoLock
       THEN AcqReturn(p, FALSE) /\ UNCHANGED lock_age
       ELSE /\ lock_age' = [lock_age EXCEPT ![p] = lock.age]
            /\ IF IsStale(lock.age)
               THEN pc' = [pc EXCEPT ![p] = "acq_remove"] /\ UNCHANGED acqResult
               ELSE AcqReturn(p, FALSE)
    /\ UNCHANGED <<frame, pending, lock, file, seen_urls, new_jobs, browser, hist, prev, probe>>

\* `os.remove(lock_file)`; it raises when the file is gone
AcqRemove(p) ==
    /\ pc[p] = "acq_remove"
    /\ IF lock = NoLock
       THEN AcqReturn(p, FALSE) /\ UNCHANGED <<lock, hist>>
       ELSE /\ lock' = NoLock
            /\ hist' = EndRace(Touch([hist EXCEPT
                            ![p].removed = TRUE,
                            ![p].removedLive = (lock.owner # p /\ lock.level = "run"
                                                  /\ InRun(lock.owner))], p))
            /\ pc' = [pc EXCEPT ![p] = "acq_retry"]
            /\ UNCHANGED acqResult
    /\ UNCHANGED <<frame, pending, file, lock_age, seen_urls, new_jobs, browser, prev, probe>>

\* second os.open(..., O_CREAT | O_EXCL | O_WRONLY)
AcqRetry(p) ==
    /\ pc[p] = "acq_retry"
    /\ IF ExclCreateOk(lock)
       THEN /\ lock' = LockRecord(p, Level(p))
            /\ hist' = Touch([hist EXCEPT ![p].creates = @ + 1, ![p].owes = "owed"], p)
            /\ AcqReturn(p, TRUE)
       ELSE /\ hist' = [hist EXCEPT ![p].creates = @ + 1]
            /\ AcqReturn(p, FALSE)
            /\ UNCHANGED lock
    /\ UNCHANGED <<frame, pending, file, lock_age, seen_urls, new_jobs, browser, prev, probe>>

(* -------------------------------- main -------------------------------- *)

\* the process is started: main() calls acquire_lock()
Start(p) ==
    /\ pc[p] = "idle"
    /\ pc' = [pc EXCEPT ![p] = "acq_create"]
    /\ hist' = [hist EXCEPT ![p] = BeginAcquire(@)]
    /\ UNCHANGED <<frame, pending, lock, file, lock_age, acqResult, seen_urls, new_jobs, browser, prev, probe>>

\* main: `if not acquire_lock(): return`, else the immediate run_daily_scrape()
MainCheck(p) ==
    /\ pc[p] = "main_check"
    /\ IF AfterMainCheck(acqResult[p]) = "done"
       THEN /\ pc' = [pc EXCEPT ![p] = "done"]
            /\ hist' = [hist EXCEPT ![p] = EndAcquire(@)]
            /\ UNCHANGED frame
       ELSE /\ pc' = [pc EXCEPT ![p] = "acq_create"]
            /\ frame' = [frame EXCEPT ![p] = "now"]
            /\ hist' = [hist EXCEPT ![p] = BeginAcquire(@)]
    /\ lock_age' = [lock_age EXCEPT ![p] = 0]
    /\ acqResult' = [acqResult EXCEPT ![p] = FALSE]
    /\ UNCHANGED <<pending, lock, file, seen_urls, new_jobs, browser, prev, probe>>

\* main: `while True: schedule.run_pending(); time.sleep(60)` fires the 09:00 job
MainFire(p) ==
    /\ pc[p] = "main_loop"
    /\ pc' = [pc EXCEPT ![p] = "acq_create"]
    /\ frame' = [frame EXCEPT ![p] = "sched"]
    /\ hist' = [hist EXCEPT ![p] = BeginAcquire(@)]
    /\ UNCHANGED <<pending, lock, file, lock_age, acqResult, seen_urls, new_jobs, browser, prev, probe>>

\* main: Ctrl-C during the scheduling loop
MainInterrupt(p) ==
    /\ pc[p] = "main_loop"
    /\ pending' = [pending EXCEPT ![p] = "KeyboardInterrupt"]
    /\ pc' = [pc EXCEPT ![p] = "main_except"]
    /\ UNCHANGED <<frame, lock, file, lock_age, acqResult, seen_urls, new_jobs, browser, hist, prev, probe>>

\* main: `except KeyboardInterrupt:` closes the browser; close_browser
\* returns, or `await cls._browser.close()` raises
MainExcept(p) ==
    /\ pc[p] = "main_except"
    /\ \/ /\ browser' = [browser EXCEPT ![p] = FALSE]
          /\ pending' = [pending EXCEPT ![p] = "none"]
          /\ hist' = [hist EXCEPT ![p].closeCut = FALSE]
       \/ /\ browser[p]
          /\ \E left \in BOOLEAN : browser' = [browser EXCEPT ![p] = left]
          /\ pending' = [pending EXCEPT ![p] = "Exception"]
          /\ hist' = [hist EXCEPT ![p].closeCut = TRUE]
    /\ pc' = [pc EXCEPT ![p] = "main_release"]
    /\ UNCHANGED <<frame, lock, file, lock_age, acqResult, seen_urls, new_jobs, prev, probe>>

\* main: `finally: release_lock()`, then the process ends
MainRelease(p) ==
    /\ pc[p] = "main_release"
    /\ lock' = release_lock(lock)
    /\ hist' = EndRace(Touch([hist EXCEPT ![p].owes = IF @ = "never" THEN @ ELSE "released"], p))
    /\ pc' = [pc EXCEPT ![p] = "done"]
    /\ UNCHANGED <<frame, pending, file, lock_age, acqResult, seen_urls, new_jobs, browser, prev, probe>>


(* ----------------------- run_daily_scrape_async ----------------------- *)

\* history at the start of the try block of a run
BeginRun(h, over) ==
    [h EXCEPT !.outcome = "ran", !.loadObs = "none", !.before = {}, !.batch = {}, !.saveCalls = 0,
              !.saved = FALSE, !.deduped = FALSE, !.notified = {},
              !.delivery = "none", !.overlapped = over]

\* run_daily_scrape_async returns (or raises) into main
EndRun(p, pend) ==
    /\ pc' = [pc EXCEPT ![p] = AfterRun(frame[p], pend)]
    /\ frame' = [frame EXCEPT ![p] = "none"]
    /\ seen_urls' = [seen_urls EXCEPT ![p] = {}]
    /\ new_jobs' = [new_jobs EXCEPT ![p] = <<>>]

\* run_daily_scrape_async: `if not acquire_lock(): return`
RunCheck(p) ==
    /\ pc[p] = "run_check"
    /\ LET nxt == AfterRunCheck(acqResult[p])
           others == {q \in Procs \ {p} : InRun(q)}
       IN  IF nxt = "return"
           THEN /\ EndRun(p, pending[p])
                /\ hist' = [hist EXCEPT ![p] = [EndAcquire(@) EXCEPT !.outcome = "skipped"]]
           ELSE /\ pc' = [pc EXCEPT ![p] = nxt]
                /\ hist' = [q \in Procs |->
                              IF q = p THEN BeginRun(EndAcquire(hist[p]), others # {})
                              ELSE IF q \in others THEN [hist[q] EXCEPT !.overlapped = TRUE]
                              ELSE hist[q]]
                /\ UNCHANGED <<frame, seen_urls, new_jobs>>
    /\ lock_age' = [lock_age EXCEPT ![p] = 0]
    /\ acqResult' = [acqResult EXCEPT ![p] = FALSE]
    /\ UNCHANGED <<pending, lock, file, browser, prev, probe>>

\* `seen_urls = load_seen_jobs()`
RunLoad(p) ==
    /\ pc[p] = "run_load"
    /\ \E ioerror \in BOOLEAN :
        /\ seen_urls' = [seen_urls EXCEPT ![p] = load_seen_jobs(file, ioerror)]
        /\ hist' = [hist EXCEPT ![p].loadObs = LoadObservation(file, ioerror),
                                ![p].before = IF file.state = "valid" THEN file.urls ELSE {}]
    /\ pc' = [pc EXCEPT ![p] = StageAfter("run_load")]
    /\ UNCHANGED <<frame, pending, lock, file, lock_age, acqResult, new_jobs, browser, prev, probe>>

\* `jobs = await scrape_all_jobs()`, which can return the lists in B, then the
\* blacklist filter and the deduplication loop
RunScrape(p, B) ==
    /\ pc[p] = "run_scrape"
    /\ \E launched \in BOOLEAN :
       \E jobs \in IF launched THEN B ELSE {scrape_all_jobs(NothingFetched)} :
          LET r == Dedup(FilterBlacklisted(jobs), [new |-> <<>>, seen |-> seen_urls[p]])
          IN  /\ new_jobs' = [new_jobs EXCEPT ![p] = r.new]
              /\ seen_urls' = [seen_urls EXCEPT ![p] = r.seen]
              /\ browser' = [browser EXCEPT ![p] = @ \/ launched]
              /\ hist' = [hist EXCEPT ![p].batch = UrlsOf(jobs), ![p].deduped = TRUE]
    /\ pc' = [pc EXCEPT ![p] = StageAfter("run_scrape")]
    /\ UNCHANGED <<frame, pending, lock, file, lock_age, acqResult, prev, probe>>

\* Ctrl-C while the run awaits the adapters: the task is cancelled
RunInterrupt(p) ==
    /\ pc[p] = "run_scrape"
    /\ pending' = [pending EXCEPT ![p] = "KeyboardInterrupt"]
    /\ \E launched \in BOOLEAN : browser' = [browser EXCEPT ![p] = @ \/ launched]
    /\ IF OnRunInterrupt = "return"
       THEN /\ pc' = [pc EXCEPT ![p] = AfterRun(frame[p], "KeyboardInterrupt")]
            /\ frame' = [frame EXCEPT ![p] = "none"]
       ELSE /\ pc' = [pc EXCEPT ![p] = OnRunInterrupt]
            /\ UNCHANGED frame
    /\ UNCHANGED <<lock, file, lock_age, acqResult, seen_urls, new_jobs, hist, prev, probe>>

\* save_seen_jobs: `open(seen_jobs_file, 'w')` truncates the file, or raises
SaveOpen(p) ==
    /\ pc[p] = "save_open"
    /\ hist' = [hist EXCEPT ![p].saveCalls = @ + 1,
                            ![p].loadObs = IF @ = "ok" THEN "ok" ELSE "none"]
    /\ \/ /\ file' = PartialFile
          /\ pc' = [pc EXCEPT ![p] = "save_write"]
       \/ /\ UNCHANGED file
          /\ pc' = [pc EXCEPT ![p] = StageAfter("save_open")]
    /\ UNCHANGED <<frame, pending, lock, lock_age, acqResult, seen_urls, new_jobs, browser, prev, probe>>

\* save_seen_jobs: `json.dump(list(seen_urls), f, indent=2)` and the close
SaveWrite(p) ==
    /\ pc[p] = "save_write"
    /\ \/ \* the whole list reaches the file
          /\ file' = ValidFile(seen_urls[p])
          /\ hist' = [hist EXCEPT ![p].saved = TRUE]
       \/ \* another writer wrote since the truncation: the two outputs mix
          /\ file.state = "valid"
          /\ file' = PartialFile
          /\ UNCHANGED hist
       \/ \* the write raises part-way
          /\ file' \in {file, PartialFile}
          /\ UNCHANGED hist
    /\ pc' = [pc EXCEPT ![p] = StageAfter("save_open")]
    /\ UNCHANGED <<frame, pending, lock, lock_age, acqResult, seen_urls, new_jobs, browser, prev, probe>>

\* `if new_jobs:` send_summary, or the console summary without a webhook
RunNotify(p) ==
    /\ pc[p] = "run_notify"
    /\ IF new_jobs[p] = <<>>
       THEN hist' = [hist EXCEPT ![p].before = {}]
       ELSE \/ \E posted \in BOOLEAN :
                 hist' = [hist EXCEPT ![p].notified = UrlsOf(new_jobs[p]),
                                      ![p].delivery = IF posted THEN "sent" ELSE "failed",
                                      ![p].before = {}]
            \/ hist' = [hist EXCEPT ![p].delivery = "console", ![p].before = {}]
    /\ pc' = [pc EXCEPT ![p] = StageAfter("run_notify")]
    /\ UNCHANGED <<frame, pending, lock, file, lock_age, acqResult, seen_urls, new_jobs, browser, prev, probe>>

\* finally: `await PlaywrightBrowserManager.close_browser()` and
\* `release_lock()`, then the run ends; or `await cls._browser.close()` raises
\* and the rest of the finally block is skipped
RunFinally(p) ==
    /\ pc[p] = "run_finally"
    /\ prev' = IF hist[p].overlapped \/ hist[p].notified = {} THEN NoRun
                ELSE [urls |-> hist[p].batch, notified |-> hist[p].notified,
                      saved |-> hist[p].saved, any |-> TRUE]
    /\ \/ /\ browser' = [browser EXCEPT ![p] = FALSE]
          /\ lock' = release_lock(lock)
          /\ hist' = EndRace(Touch([hist EXCEPT ![p] =
                          [BeginRun(@, FALSE) EXCEPT !.owes = "released"]], p))
          /\ EndRun(p, pending[p])
          /\ UNCHANGED pending
       \/ /\ browser[p]
          /\ \E left \in BOOLEAN : browser' = [browser EXCEPT ![p] = left]
          /\ pending' = [pending EXCEPT ![p] = "Exception"]
          /\ hist' = [hist EXCEPT ![p] = [BeginRun(@, FALSE) EXCEPT !.closeCut = TRUE]]
          /\ EndRun(p, "Exception")
          /\ UNCHANGED lock
    /\ UNCHANGED <<file, lock_age, acqResult, probe>>

(* ------------------------- environment steps -------------------------- *)

\* the process is killed; its memory is gone, its files stay
Crash(p) ==
    /\ pc[p] \notin {"idle", "done", "crashed"}
    /\ pc' = [pc EXCEPT ![p] = "crashed"]
    /\ frame' = [frame EXCEPT ![p] = "none"]
    /\ pending' = [pending EXCEPT ![p] = "none"]
    /\ lock_age' = [lock_age EXCEPT ![p] = 0]
    /\ acqResult' = [acqResult EXCEPT ![p] = FALSE]
    /\ seen_urls' = [seen_urls EXCEPT ![p] = {}]
    /\ new_jobs' = [new_jobs EXCEPT ![p] = <<>>]
    /\ browser' = [browser EXCEPT ![p] = FALSE]
    /\ hist' = [hist EXCEPT ![p] = NewHist]
    /\ prev' = IF InRun(p) THEN NoRun ELSE prev
    /\ UNCHANGED <<lock, file, probe>>

\* time passes: the lock file gets older
Tick(step) ==
    /\ lock # NoLock
    /\ lock.age < MaxAge
    /\ lock' = [lock EXCEPT !.age = IF @ + step > MaxAge THEN MaxAge ELSE @ + step]
    /\ hist' = IF IsStale(lock'.age) THEN EndRace(hist) ELSE hist
    /\ UNCHANGED <<pc, frame, pending, file, lock_age, acqResult, seen_urls, new_jobs, browser, prev, probe>>

\* processes in P may be started, scrape_all_jobs returns a list in B,
\* and the clock advances by `step` seconds at a time
NextOf(P, B, step) ==
    \/ \E p \in P :
        \/ Start(p) \/ MainCheck(p) \/ MainFire(p) \/ MainInterrupt(p)
        \/ MainExcept(p) \/ MainRelease(p)
        \/ AcqCreate(p) \/ AcqMtime(p) \/ AcqRemove(p) \/ AcqRetry(p)
        \/ RunCheck(p) \/ RunLoad(p) \/ RunScrape(p, B) \/ RunInterrupt(p)
        \/ SaveOpen(p) \/ SaveWrite(p) \/ RunNotify(p) \/ RunFinally(p)
        \/ Crash(p)
    \/ Tick(step)

Batches == ScrapeResults(Urls)

Next == NextOf(Procs, Batches, MaxAge)

Spec == Init /\ [][Next]_vars

\* the lock protocol in full, the sources showing no postings
NoBatches == ScrapeResults({})

NextLock == NextOf(Procs, NoBatches, TickStep)

SpecLock == Init /\ [][NextLock]_vars


(* ------------------- functions called on their own -------------------- *)

\* the variables of the processes, the lock and the store
progvars == <<pc, frame, pending, lock, file, lock_age, acqResult, seen_urls,
              new_jobs, browser, hist, prev>>

(* text: Python str values are TLA+ strings, taken apart with SubSeq *)

UpperCase ==
    {"A", "B", "C", "D", "E", "F", "G", "H", "I", "J", "K", "L", "M",
     "N", "O", "P", "Q", "R", "S", "T", "U", "V", "W", "X", "Y", "Z"}

\* str.lower() on one character
LowerChar(c) ==
    CASE c = "A" -> "a" [] c = "B" -> "b" [] c = "C" -> "c" [] c = "D" -> "d"
      [] c = "E" -> "e" [] c = "F" -> "f" [] c = "G" -> "g" [] c = "H" -> "h"
      [] c = "I" -> "i" [] c = "J" -> "j" [] c = "K" -> "k" [] c = "L" -> "l"
      [] c = "M" -> "m" [] c = "N" -> "n" [] c = "O" -> "o" [] c = "P" -> "p"
      [] c = "Q" -> "q" [] c = "R" -> "r" [] c = "S" -> "s" [] c = "T" -> "t"
      [] c = "U" -> "u" [] c = "V" -> "v" [] c = "W" -> "w" [] c = "X" -> "x"
      [] c = "Y" -> "y" [] c = "Z" -> "z" [] OTHER -> c

\* str.lower(): every character lowered, the two halves of s in turn
RECURSIVE Lower(_)
Lower(s) ==
    IF Len(s) <= 1 THEN LowerChar(s)
    ELSE Lower(SubSeq(s, 1, Len(s) \div 2)) \o Lower(SubSeq(s, Len(s) \div 2 + 1, Len(s)))

\* the characters str.strip() removes
Whitespace == {" ", "\n", "\t"}

RECURSIVE LStrip(_)
LStrip(s) ==
    IF s # "" /\ SubSeq(s, 1, 1) \in Whitespace THEN LStrip(SubSeq(s, 2, Len(s))) ELSE s

RECURSIVE RStrip(_)
RStrip(s) ==
    IF s # "" /\ SubSeq(s, Len(s), Len(s)) \in Whitespace
    THEN RStrip(SubSeq(s, 1, Len(s) - 1)) ELSE s

\* str.strip()
Strip(s) == RStrip(LStrip(s))

\* `sub in text`
Contains(text, sub) ==
    \E i \in 1..(Len(text) - Len(sub) + 1) : SubSeq(text, i, i + Len(sub) - 1) = sub

(* JobRanker *)

PERFECT_TITLES ==
    {"junior devops", "sysadmin", "system administrator", "l2 support",
     "level 2 support", "infrastructure engineer", "node operator", "node operations"}

PERFECT_KEYWORDS ==
    [linux |-> {"linux", "ubuntu"}, scripting |-> {"python", "bash", "shell scripting"}]

GOOD_TITLES ==
    {"it support", "technical support", "datacenter technician", "it operations",
     "operations engineer", "support engineer"}

GOOD_KEYWORDS ==
    {"hardware", "repair", "network", "networking", "tickets", "on-site", "onsite",
     "equipment", "server maintenance"}

BLACKLIST_TITLES ==
    {"senior solidity developer", "marketing", "sales", "hr", "human resources",
     "legal", "lawyer", "attorney"}

BLACKLIST_KEYWORDS ==
    {"senior solidity", "marketing manager", "sales manager", "hr manager", "legal counsel"}

\* JobRanker.normalize_text
normalize_text(text) == Strip(Lower(text))

\* JobRanker.contains_keywords
contains_keywords(text, keywords) ==
    LET normalized == normalize_text(text)
    IN  \E keyword \in keywords : Contains(normalized, Lower(keyword))

\* mutant: the blacklist looked up in the title only
blacklist_reason_title_only(title_lower, combined) ==
    IF contains_keywords(title_lower, BLACKLIST_TITLES)
    THEN "Contains blacklisted title/keyword"
    ELSE IF contains_keywords(title_lower, BLACKLIST_KEYWORDS)
    THEN "Contains blacklisted keyword"
    ELSE "none"

\* rank_job: the two blacklist tests, "none" when neither returns
blacklist_reason(title_lower, combined) ==
    IF contains_keywords(combined, BLACKLIST_TITLES)
    THEN "Contains blacklisted title/keyword"
    ELSE IF contains_keywords(combined, BLACKLIST_KEYWORDS)
    THEN "Contains blacklisted keyword"
    ELSE "none"

\* mutant: `has_perfect_title and (has_linux or has_scripting)`
is_perfect_match_either(title_lower, combined) ==
    /\ contains_keywords(title_lower, PERFECT_TITLES)
    /\ \/ contains_keywords(combined, PERFECT_KEYWORDS.linux)
       \/ contains_keywords(combined, PERFECT_KEYWORDS.scripting)

\* rank_job: `has_perfect_title and has_linux and has_scripting`
is_perfect_match(title_lower, combined) ==
    /\ contains_keywords(title_lower, PERFECT_TITLES)
    /\ contains_keywords(combined, PERFECT_KEYWORDS.linux)
    /\ contains_keywords(combined, PERFECT_KEYWORDS.scripting)

\* rank_job: `has_good_title or has_good_keywords`
is_good_match(title_lower, combined) ==
    \/ contains_keywords(title_lower, GOOD_TITLES)
    \/ contains_keywords(combined, GOOD_KEYWORDS)

\* JobRanker.rank_job after its first three lines: (priority, reason)
rank_normalized(title_lower, combined) ==
        IF blacklist_reason(title_lower, combined) # "none"
        THEN [priority |-> "BLACKLISTED", reason |-> blacklist_reason(title_lower, combined)]
        ELSE IF is_perfect_match(title_lower, combined)
        THEN [priority |-> "PERFECT_MATCH",
              reason |-> "Perfect match: Title + Linux + Python/Bash"]
        ELSE IF is_good_match(title_lower, combined)
        THEN [priority |-> "GOOD_MATCH",
              reason |-> "Good match: IT Support/Hardware/Network keywords"]
        ELSE IF Contains(combined, "customer support") \/ Contains(title_lower, "support")
        THEN [priority |-> "WEAK_MATCH", reason |-> "Generic support role"]
        ELSE [priority |-> "WEAK_MATCH", reason |-> "No strong match criteria"]

\* JobRanker.rank_job: title_lower, desc_lower and combined, then the rules
rank_job(title, description) ==
    rank_normalized(normalize_text(title),
                    normalize_text(title) \o " " \o normalize_text(description))

\* pieces of text that titles and descriptions of postings are made of
Phrases ==
    {"Senior Solidity Developer", "Junior DevOps", "  UBUNTU ", "Bash scripts",
     "IT Support", "Hardware", "Customer Support", "Chrome", "Chef"}

\* texts of at most n phrases, joined by ", "
RECURSIVE TextsUpTo(_)
TextsUpTo(n) ==
    IF n = 0 THEN {""}
    ELSE LET shorter == TextsUpTo(n - 1)
         IN  shorter \cup {IF t = "" THEN f ELSE t \o ", " \o f : t \in shorter, f \in Phrases}

Titles == TextsUpTo(MaxTitlePhrases)

Descriptions == TextsUpTo(MaxDescPhrases)

(* more of str *)

Min(a, b) == IF a < b THEN a ELSE b

\* s[:n]
Take(s, n) == SubSeq(s, 1, Min(n, Len(s)))

\* s.startswith(prefix)
StartsWith(s, prefix) == Len(prefix) <= Len(s) /\ SubSeq(s, 1, Len(prefix)) = prefix

\* s.find(sub) + 1: the position of the first occurrence, 0 when there is none
IndexOf(s, sub) ==
    LET at == {i \in 1..(Len(s) - Len(sub) + 1) : SubSeq(s, i, i + Len(sub) - 1) = sub}
    IN  IF at = {} THEN 0 ELSE CHOOSE i \in at : \A j \in at : i <= j

\* s.split(sep)
RECURSIVE Split(_, _)
Split(s, sep) ==
    LET i == IndexOf(s, sep)
    IN  IF i = 0 THEN <<s>>
        ELSE <<SubSeq(s, 1, i - 1)>> \o Split(SubSeq(s, i + Len(sep), Len(s)), sep)

\* s.split(sep, 1)
SplitOnce(s, sep) ==
    LET i == IndexOf(s, sep)
    IN  IF i = 0 THEN <<s>>
        ELSE <<SubSeq(s, 1, i - 1), SubSeq(s, i + Len(sep), Len(s))>>

\* the first word of s.split(), "" when s.split() is empty
RECURSIVE UntilWhitespace(_)
UntilWhitespace(s) ==
    IF s = "" \/ SubSeq(s, 1, 1) \in Whitespace THEN ""
    ELSE SubSeq(s, 1, 1) \o UntilWhitespace(SubSeq(s, 2, Len(s)))

FirstWord(s) == UntilWhitespace(LStrip(s))

\* tag.get_text(strip=True) of a tag holding one string
get_text(raw) == Strip(raw)

(* the adapters' parsers *)

\* element.find(...) found no tag, or the tag has no such attribute
NoTag == "<no tag>"

\* a parser returns None
None == [none |-> TRUE]

TITLE_MIN == 5

MESSAGE_MIN == 10

RANKED_CHARS == 500

STORED_CHARS == 300

TITLE_MAX == 150

\* Job(title=..., priority=priority, priority_reason=reason)
NewJob(title, company, url, description, source, rank) ==
    [title |-> title, company |-> company, url |-> url,
     description |-> Take(description, STORED_CHARS), source |-> source,
     priority |-> rank.priority, priority_reason |-> rank.reason]

\* `if priority == JobPriority.BLACKLISTED: return None`, else the Job
UnlessBlacklisted(job) == IF job.priority = "BLACKLISTED" THEN None ELSE job

\* mutant: the parsers' tail without `if priority == JobPriority.BLACKLISTED`
ranked_job_unfiltered(title, company, url, description, source) ==
    NewJob(title, company, url, description, source, rank_job(title, description))

\* the tail of every parser: rank, drop a BLACKLISTED posting, build the Job
ranked_job(title, company, url, description, source) ==
    UnlessBlacklisted(NewJob(title, company, url, description, source,
                             rank_job(title, description)))

\* the description of a list element: its description tag, else its whole text
ElementDescription(element) ==
    IF get_text(element.summary) # "" THEN get_text(element.summary)
    ELSE Take(get_text(element.text), RANKED_CHARS)

\* Web3CareerScraper.parse_job
Web3Career_parse_job(element) ==
    IF element.broken THEN None
    ELSE IF element.title = NoTag THEN None
    ELSE LET title == get_text(element.title)
         IN  IF title = "" \/ Len(title) < TITLE_MIN THEN None
             ELSE IF element.href = NoTag THEN None
             ELSE IF element.href = "" THEN None
             ELSE ranked_job(title, "Unknown",
                             IF StartsWith(element.href, "http") THEN element.href
                             ELSE "https://web3.career" \o element.href,
                             ElementDescription(element), "Web3.career")

\* CryptoJobsListScraper.parse_job and CryptocurrencyJobsScraper.parse_job
JobsList_parse_job(element, base_url, source) ==
    IF element.broken THEN None
    ELSE IF element.title = NoTag THEN None
    ELSE LET title == get_text(element.title)
         IN  IF title = "" \/ Len(title) < TITLE_MIN THEN None
             ELSE ranked_job(title, "Unknown",
                             IF element.href = NoTag THEN base_url
                             ELSE IF StartsWith(element.href, "http") THEN element.href
                             ELSE base_url \o element.href,
                             ElementDescription(element), source)

CryptoJobsList_parse_job(element) ==
    JobsList_parse_job(element, "https://cryptojobslist.com", "CryptoJobsList.com")

\* CryptocurrencyJobsScraper.parse_job_from_h2
parse_job_from_h2(title, url) ==
    IF title = "" \/ Len(title) < TITLE_MIN THEN None
    ELSE LET split == IF Contains(title, "@")
                      THEN LET parts == Split(title, "@")
                           IN  [title |-> Strip(parts[1]), company |-> Strip(parts[Len(parts)])]
                      ELSE IF Contains(title, " - ")
                      THEN LET parts == SplitOnce(title, " - ")
                           IN  [title |-> Strip(parts[1]), company |-> Strip(parts[2])]
                      ELSE [title |-> title, company |-> "Unknown"]
         IN  ranked_job(split.title, split.company, url,
                        Take(split.title, STORED_CHARS), "CryptocurrencyJobs.co")

\* CryptocurrencyJobsScraper.scrape: the body of `for h2_elem in h2_elements[:30]`,
\* None when the heading is skipped or raises, else what parse_job_from_h2 returns
H2Job(h2_elem) ==
    IF h2_elem.broken THEN None
    ELSE LET title_text == get_text(h2_elem.text)
         IN  IF title_text = "" \/ Len(title_text) < TITLE_MIN THEN None
             ELSE IF \/ Contains(Lower(title_text), "talent collective")
                     \/ Contains(Lower(title_text), "subscribe")
             THEN None
             ELSE parse_job_from_h2(title_text,
                     IF h2_elem.href \in {NoTag, ""} THEN "https://cryptocurrencyjobs.co"
                     ELSE IF StartsWith(h2_elem.href, "http") THEN h2_elem.href
                     ELSE "https://cryptocurrencyjobs.co" \o h2_elem.href)

JOB_WORDS == {"hiring", "role:", "salary", "position", "job", "looking for"}

\* TelegramScraper.parse_job: `for line in lines[:3]` looking for a company
RECURSIVE TelegramCompany(_, _, _)
TelegramCompany(lines, i, company) ==
    IF i > Min(3, Len(lines)) THEN company
    ELSE IF \/ Contains(lines[i], "@")
            \/ Contains(Lower(lines[i]), "company:")
            \/ Contains(Lower(lines[i]), "at ")
    THEN LET parts == Split(lines[i], "@")
         IN  IF Len(parts) > 1 /\ FirstWord(parts[2]) # "" THEN FirstWord(parts[2])
             ELSE company
    ELSE TelegramCompany(lines, i + 1, company)

\* TelegramScraper.parse_job
Telegram_parse_job(element, channel_name) ==
    IF element.broken THEN None
    ELSE IF element.text = NoTag THEN None
    ELSE LET message_text == get_text(element.text)
         IN  IF message_text = "" \/ Len(message_text) < MESSAGE_MIN THEN None
             ELSE IF ~\E keyword \in JOB_WORDS : Contains(Lower(message_text), keyword)
             THEN None
             ELSE LET lines == Split(message_text, "\n")
                      first == Strip(lines[1])
                      title == IF Len(first) > TITLE_MAX
                               THEN Take(first, TITLE_MAX) \o "..." ELSE first
                      url == IF element.href \in {NoTag, ""}
                             THEN "https://t.me/" \o channel_name ELSE element.href
                  IN  ranked_job(title,
                                 TelegramCompany(lines, 1, "Telegram (" \o channel_name \o ")"),
                                 url, Take(message_text, RANKED_CHARS),
                                 "Telegram (" \o channel_name \o ")")

\* elements of a listing page: the text of the title tag, the href of the first
\* link, the text of the description tag, the text of the whole element
ListElement(title, href, summary) ==
    [title |-> title, href |-> href, summary |-> summary,
     text |-> (IF title = NoTag THEN "" ELSE title) \o " Acme Labs Remote",
     broken |-> FALSE]

ListElements ==
    {ListElement("IT Support Engineer", "/job/1", ""),
     ListElement("Junior DevOps", "https://jobs.example/2", "Ubuntu and Bash"),
     ListElement("Marketing Manager", "/job/3", ""),
     ListElement("Node Operator", "/job/4", "You report to the Sales team"),
     ListElement("  QA  ", "/job/5", "Hardware testing"),
     ListElement(NoTag, "/job/6", ""),
     ListElement("Rust Engineer", NoTag, ""),
     ListElement("Rust Engineer", "", ""),
     [ListElement("Rust Engineer", "/job/7", "") EXCEPT !.broken = TRUE]}

\* h2 headings of cryptocurrencyjobs.co: their text and the href of the link around them
Heading(text, href) == [text |-> text, href |-> href, broken |-> FALSE]

Headings ==
    {Heading("Support Engineer @ Acme Labs", "/engineering/acme-support/"),
     Heading("QA @ Acme Labs", "/engineering/acme-qa/"),
     Heading("@AcmeLabs is hiring", "/engineering/acme/"),
     Heading("SRE - Acme Labs", NoTag),
     Heading("Sysadmin - Linux and Python", "https://jobs.example/9"),
     Heading("Legal Counsel @ Acme Labs", "/legal/acme/"),
     Heading("Engineer @ Acme Sales", "/engineering/acme-sales/"),
     Heading("Join the Talent Collective", "/talent/"),
     Heading(" Dev ", "/engineering/dev/"),
     [Heading("Rust Engineer", "/engineering/rust/") EXCEPT !.broken = TRUE]}

\* messages of a Telegram channel preview: the message text and the date link's href
Message(text, href) == [text |-> text, href |-> href, broken |-> FALSE]

RECURSIVE Repeat(_, _)
Repeat(s, n) == IF n = 0 THEN "" ELSE s \o Repeat(s, n - 1)

Messages ==
    {Message("We are hiring: Junior DevOps\nUbuntu, Python. Apply at acme.io",
             "https://t.me/web3hiring/101"),
     Message("Hi\nnew job: SysAdmin with Linux and Bash @acme", "https://t.me/web3hiring/102"),
     Message("Hiring a Sales Manager", "https://t.me/web3hiring/103"),
     Message("Role: Infrastructure Engineer\nOur HR team will contact you", NoTag),
     Message("gm everyone, what a day", "https://t.me/web3hiring/104"),
     Message("job", "https://t.me/web3hiring/105"),
     Message("Position open " \o Repeat("very ", 30) \o "soon", "https://t.me/web3hiring/106"),
     Message(NoTag, "https://t.me/web3hiring/107"),
     [Message("Looking for a Rust Engineer", "https://t.me/web3hiring/108")
        EXCEPT !.broken = TRUE]}

Channels == <<"job_crypto_eu", "web3hiring", "degencryptojobs", "cryptojobslist">>

\* the adapters' parsers by position of the adapter in scrape_all_jobs
ParserInputs(i) ==
    CASE i = 1 -> ListElements [] i = 2 -> ListElements
      [] i = 3 -> Headings [] i = 4 -> Messages

Parse(i, element) ==
    CASE i = 1 -> Web3Career_parse_job(element)
      [] i = 2 -> CryptoJobsList_parse_job(element)
      [] i = 3 -> H2Job(element)
      [] i = 4 -> Telegram_parse_job(element, Channels[2])

\* one element is handed to the parser of adapter i
ParseProbe ==
    /\ probe = NoProbe
    /\ \E i \in Scrapers : \E element \in ParserInputs(i) :
          probe' = [op |-> "parse_job", scraper |-> i, element |-> element,
                    result |-> Parse(i, element)]
    /\ UNCHANGED progvars

(* the adapters' scrape() *)

ELEMENT_CAP == 20

H2_CAP == 30

MESSAGE_CAP == 10

\* s[-n:]
LastN(s, n) == SubSeq(s, IF Len(s) > n THEN Len(s) - n + 1 ELSE 1, Len(s))

\* mutant: the elements of every strategy, one list after the other
RECURSIVE select_elements_merged(_, _)
select_elements_merged(found, i) ==
    IF i > Len(found) THEN [elements |-> <<>>, evaluated |-> Len(found)]
    ELSE [elements |-> found[i] \o select_elements_merged(found, i + 1).elements,
          evaluated |-> Len(found)]

\* the chain `job_elements = ...; if not job_elements: job_elements = ...`:
\* found[i] is what the i-th selector yields on the page; the elements kept and
\* the number of selectors evaluated
RECURSIVE select_elements(_, _)
select_elements(found, i) ==
    IF i > Len(found) THEN [elements |-> <<>>, evaluated |-> Len(found)]
    ELSE IF found[i] # <<>> THEN [elements |-> found[i], evaluated |-> i]
    ELSE select_elements(found, i + 1)

\* mutant: the loop ends at the first element that gives no Job
RECURSIVE parse_loop_until_failure(_)
parse_loop_until_failure(parsed) ==
    IF parsed = <<>> \/ Head(parsed) = None THEN <<>>
    ELSE <<Head(parsed)>> \o parse_loop_until_failure(Tail(parsed))

\* `for element in ...: try: job = self.parse_job(element); if job:
\* jobs.append(job) except Exception: continue`, where parsed[k] is what the
\* parser gives on the k-th element of the loop
RECURSIVE parse_loop(_)
parse_loop(parsed) ==
    IF parsed = <<>> THEN <<>>
    ELSE (IF Head(parsed) = None THEN <<>> ELSE <<Head(parsed)>>) \o parse_loop(Tail(parsed))

\* Web3CareerScraper.scrape and CryptoJobsListScraper.scrape on a page:
\* page.content is FALSE when get_page_content returned no content
list_scrape(i, page) ==
    IF ~page.content THEN [elements |-> <<>>, evaluated |-> 0, jobs |-> <<>>]
    ELSE LET chosen == select_elements(page.found, 1)
         IN  [elements |-> chosen.elements, evaluated |-> chosen.evaluated,
              jobs |-> parse_loop([k \in 1..Min(ELEMENT_CAP, Len(chosen.elements)) |->
                                      IF i = 1 THEN Web3Career_parse_job(chosen.elements[k])
                                      ELSE CryptoJobsList_parse_job(chosen.elements[k])])]

\* CryptocurrencyJobsScraper.scrape: the h2 headings inside <main>
h2_scrape(page) ==
    IF ~page.content \/ ~page.main THEN [elements |-> <<>>, evaluated |-> 0, jobs |-> <<>>]
    ELSE [elements |-> page.found[1], evaluated |-> 1,
          jobs |-> parse_loop([k \in 1..Min(H2_CAP, Len(page.found[1])) |-> H2Job(page.found[1][k])])]

\* TelegramScraper.scrape: `for channel_url in self.telegram_channels`; a channel
\* whose page cannot be loaded adds nothing, the others are still read
RECURSIVE telegram_channels_from(_, _)
telegram_channels_from(pages, c) ==
    IF c > Len(Channels) THEN <<>>
    ELSE (IF pages[c].content
          THEN parse_loop([k \in 1..Len(LastN(pages[c].found[1], MESSAGE_CAP)) |->
                              Telegram_parse_job(LastN(pages[c].found[1], MESSAGE_CAP)[k],
                                                 Channels[c])])
          ELSE <<>>) \o telegram_channels_from(pages, c + 1)

telegram_scrape(page) ==
    [elements |-> page.channels[2].found[1], evaluated |-> 1,
     jobs |-> telegram_channels_from(page.channels, 1)]

\* scrape() of the i-th adapter of scrape_all_jobs
Scrape(i, page) ==
    CASE i \in {1, 2} -> list_scrape(i, page)
      [] i = 3 -> h2_scrape(page)
      [] i = 4 -> telegram_scrape(page)

\* elements that give a Job (A, B), one that is rejected (R), one that raises (X)
SampleElements(i) ==
    CASE i \in {1, 2} ->
            [A |-> ListElement("IT Support Engineer", "/job/1", ""),
             B |-> ListElement("Junior DevOps", "https://jobs.example/2", "Ubuntu and Bash"),
             R |-> ListElement("Marketing Manager", "/job/3", ""),
             X |-> [ListElement("Rust Engineer", "/job/7", "") EXCEPT !.broken = TRUE]]
      [] i = 3 ->
            [A |-> Heading("Support Engineer @ Acme Labs", "/engineering/acme-support/"),
             B |-> Heading("Sysadmin - Linux and Python", "https://jobs.example/9"),
             R |-> Heading("Join the Talent Collective", "/talent/"),
             X |-> [Heading("Rust Engineer", "/engineering/rust/") EXCEPT !.broken = TRUE]]
      [] i = 4 ->
            [A |-> Message("We are hiring: Junior DevOps\nUbuntu, Python. Apply at acme.io",
                           "https://t.me/web3hiring/101"),
             B |-> Message("Role: Datacenter Technician, on-site", NoTag),
             R |-> Message("gm everyone, what a day", "https://t.me/web3hiring/104"),
             X |-> [Message("Looking for a Rust Engineer", "https://t.me/web3hiring/108")
                      EXCEPT !.broken = TRUE]]

\* lists of at most n sample elements
RECURSIVE ListsUpTo(_, _)
ListsUpTo(i, n) ==
    IF n = 0 THEN {<<>>}
    ELSE LET shorter == ListsUpTo(i, n - 1)
         IN  shorter \cup {Append(l, SampleElements(i)[k]) : l \in shorter, k \in {"A", "B", "R", "X"}}

\* a list longer than the adapter's cap: n times element a, then element b
LongList(a, n, b) == [k \in 1..(n + 1) |-> IF k <= n THEN a ELSE b]

ElementLists(i) ==
    ListsUpTo(i, MaxElements) \cup
    (CASE i \in {1, 2} -> {LongList(SampleElements(i).A, ELEMENT_CAP, SampleElements(i).B)}
       [] i = 3 -> {LongList(SampleElements(i).A, H2_CAP, SampleElements(i).B)}
       [] i = 4 -> {LongList(SampleElements(i).B, MESSAGE_CAP, SampleElements(i).A)})

\* the number of selectors in the chain of adapter i
NumStrategies(i) == CASE i = 1 -> 8 [] i = 2 -> 4 [] OTHER -> 1

\* what the selectors of a list adapter yield on a page: at most MaxHits of them
\* yield elements
StrategyResults(i) ==
    {found \in [1..NumStrategies(i) ->
                    {<<>>, <<SampleElements(i).A>>, <<SampleElements(i).B, SampleElements(i).R>>}] :
        Cardinality({k \in 1..NumStrategies(i) : found[k] # <<>>}) <= MaxHits}

\* the pages adapter i can be given
Pages(i) ==
    CASE i \in {1, 2} ->
            {[content |-> c, found |-> f] : c \in BOOLEAN, f \in StrategyResults(i)} \cup
            {[content |-> TRUE, found |-> [k \in 1..NumStrategies(i) |-> IF k = 1 THEN l ELSE <<>>]] :
                l \in ElementLists(i)}
      [] i = 3 ->
            {[content |-> c, main |-> m, found |-> <<l>>] :
                c \in BOOLEAN, m \in BOOLEAN, l \in ElementLists(i)}
      [] i = 4 ->
            {[channels |->
                 [c \in 1..Len(Channels) |->
                    IF c = 2 THEN [content |-> TRUE, found |-> <<l>>]
                    ELSE [content |-> up[c],
                          found |-> <<IF up[c] THEN <<SampleElements(i).A>> ELSE <<>>>>]]] :
                l \in ElementLists(i), up \in [{1, 3, 4} -> BOOLEAN]}

\* scrape() of one adapter runs on one page
ScrapeProbe ==
    /\ probe = NoProbe
    /\ \E i \in Scrapers : \E page \in Pages(i) :
          probe' = [op |-> "scrape", scraper |-> i, page |-> page, result |-> Scrape(i, page)]
    /\ UNCHANGED progvars

(* the deduplication loop on its own *)

\* Jobs of three urls; two adapters return a Job of the same url
BatchJobs ==
    {Web3Career_parse_job(SampleElements(1).A), Web3Career_parse_job(SampleElements(1).B),
     CryptoJobsList_parse_job(SampleElements(2).B), H2Job(SampleElements(3).A)}

\* lists of at most n Jobs
RECURSIVE BatchesUpTo(_)
BatchesUpTo(n) ==
    IF n = 0 THEN {<<>>}
    ELSE LET shorter == BatchesUpTo(n - 1)
         IN  shorter \cup {Append(b, j) : b \in shorter, j \in BatchJobs}

\* the loop runs on a batch with a loaded set, then again on the same batch with
\* the set the first pass produced
DedupProbe ==
    /\ probe = NoProbe
    /\ \E batch \in BatchesUpTo(MaxBatch), loaded \in SUBSET {j.url : j \in BatchJobs} :
          LET first == Dedup(batch, [new |-> <<>>, seen |-> loaded])
          IN  probe' = [op |-> "dedup", batch |-> batch, loaded |-> loaded, result |-> first,
                        again |-> Dedup(batch, [new |-> <<>>, seen |-> first.seen])]
    /\ UNCHANGED progvars

(* the body of a run on its own *)

\* the page each adapter reads in a run: an accepted element, a posting that
\* rank_job blacklists, another accepted element
RunPage(i) ==
    CASE i \in {1, 2} ->
            [content |-> TRUE,
             found |-> [k \in 1..NumStrategies(i) |->
                          IF k = 1 THEN <<SampleElements(i).A, SampleElements(i).R, SampleElements(i).B>>
                          ELSE <<>>]]
      [] i = 3 ->
            [content |-> TRUE, main |-> TRUE,
             found |-> <<<<SampleElements(i).A,
                           Heading("Legal Counsel @ Acme Labs", "/legal/acme/"),
                           SampleElements(i).B>>>>]
      [] i = 4 ->
            [channels |->
                [c \in 1..Len(Channels) |->
                    [content |-> c = 2,
                     found |-> <<IF c = 2
                                 THEN <<SampleElements(i).A,
                                        Message("Hiring a Sales Manager", "https://t.me/web3hiring/103"),
                                        SampleElements(i).B>>
                                 ELSE <<>>>>]]]

\* the page of adapter i when get_page_content returns no content
NoContent(i) ==
    CASE i \in {1, 2} -> [content |-> FALSE, found |-> [k \in 1..NumStrategies(i) |-> <<>>]]
      [] i = 3 -> [content |-> FALSE, main |-> FALSE, found |-> <<<<>>>>]
      [] i = 4 -> [channels |-> [c \in 1..Len(Channels) |-> [content |-> FALSE, found |-> <<<<>>>>]]]

\* what happens to adapter i in a run: its scrape() raises, or it returns its
\* list after getting no content or after reading its page
AdapterRuns(i) ==
    {[raises |-> TRUE, page |-> NoContent(i), jobs |-> <<>>]} \cup
    {[raises |-> FALSE, page |-> page, jobs |-> Scrape(i, page).jobs] :
        page \in {NoContent(i), RunPage(i)}}

\* the sets seen_jobs.json can hold
StoredSets ==
    {{}, {"https://web3.career/job/1"}, {"https://web3.career/job/1", "https://jobs.example/2"}}

StoreFiles == {AbsentFile, PartialFile} \cup {ValidFile(stored) : stored \in StoredSets}

\* scraper.scrape() as scrape_all_jobs sees it: the list, or an exception
ScrapeOutcome(adapter) ==
    IF adapter.raises THEN [ok |-> FALSE, jobs |-> <<>>]
    ELSE [ok |-> TRUE, jobs |-> adapter.jobs]

\* run_daily_scrape_async from the blacklist filter to the argument of
\* save_seen_jobs, given what load_seen_jobs and scrape_all_jobs returned
run_body(loaded, jobs) ==
    LET filtered_jobs == FilterBlacklisted(jobs)
        deduped == Dedup(filtered_jobs, [new |-> <<>>, seen |-> loaded])
    IN  [loaded |-> loaded, jobs |-> jobs, new_jobs |-> deduped.new, saved |-> deduped.seen]

\* one run's body, with the store file and the adapters' pages as they are:
\* load_seen_jobs, scrape_all_jobs, then the filter, the loop and the save
RunBodyProbe ==
    /\ probe = NoProbe
    /\ \E f \in StoreFiles, ioerror \in BOOLEAN :
       \E a1 \in AdapterRuns(1), a2 \in AdapterRuns(2), a3 \in AdapterRuns(3), a4 \in AdapterRuns(4) :
       \E loaded \in {load_seen_jobs(f, ioerror)} :
       \E jobs \in {scrape_all_jobs([i \in Scrapers |-> ScrapeOutcome(<<a1, a2, a3, a4>>[i])])} :
          probe' = [op |-> "run", file |-> f, ioerror |-> ioerror, adapters |-> <<a1, a2, a3, a4>>,
                    result |-> run_body(loaded, jobs)]
    /\ UNCHANGED progvars

(* the notification of a run on its own *)

\* what requests.post and raise_for_status can do
Responses == {"ok", "connection error", "timeout", "http error"}

\* os.getenv('DISCORD_WEBHOOK_URL', default_webhook)
WebhookUrls == {"", "REPLACED_WEBHOOK_URL"}

\* sorted(new_jobs, key=lambda x: x.priority.value): BLACKLISTED = 0,
\* PERFECT_MATCH = 1, GOOD_MATCH = 2, WEAK_MATCH = 3; the sort is stable
sorted_by_priority(jobs) ==
    SelectSeq(jobs, LAMBDA j : j.priority = "BLACKLISTED")
        \o SelectSeq(jobs, LAMBDA j : j.priority = "PERFECT_MATCH")
        \o SelectSeq(jobs, LAMBDA j : j.priority = "GOOD_MATCH")
        \o SelectSeq(jobs, LAMBDA j : j.priority = "WEAK_MATCH")

\* DiscordNotifier.send_summary: the posts it makes, whether the webhook took
\* the summary, and whether the call raises; `except Exception` around the post
\* logs the error and the call returns
send_summary(jobs, response) ==
    IF jobs = <<>> THEN [posts |-> 0, delivered |-> FALSE, raised |-> FALSE]
    ELSE [posts |-> 1, delivered |-> response = "ok", raised |-> FALSE]

\* run_daily_scrape_async: `if new_jobs:` down to the end of the try block;
\* console is the list of Jobs printed
notify(jobs, webhook_url, response) ==
    IF jobs = <<>> THEN [posts |-> 0, delivered |-> FALSE, console |-> <<>>]
    ELSE IF webhook_url # ""
    THEN LET sent == send_summary(jobs, response)
         IN  [posts |-> sent.posts, delivered |-> sent.delivered,
              console |-> IF sent.raised THEN sorted_by_priority(jobs) ELSE <<>>]
    ELSE [posts |-> 0, delivered |-> FALSE, console |-> sorted_by_priority(jobs)]

\* the lists the deduplication loop can produce: no url twice
NewJobLists ==
    {b \in BatchesUpTo(MaxBatch) : \A k, l \in 1..Len(b) : k # l => b[k].url # b[l].url}

\* the run notifies
NotifyProbe ==
    /\ probe = NoProbe
    /\ \E jobs \in NewJobLists, webhook_url \in WebhookUrls, response \in Responses :
          probe' = [op |-> "notify", new_jobs |-> jobs, webhook_url |-> webhook_url,
                    response |-> response, result |-> notify(jobs, webhook_url, response)]
    /\ UNCHANGED progvars

\* send_summary: `for job in top_matches[:10]`, `telegram_jobs[:10]`,
\* `weak_matches[:10]`
FIELD_CAP == 10

\* a field of the Top Matches embed (the medal emoji before the name left out)
top_field(job) ==
    [name |-> "**" \o job.title \o "** @ " \o job.company,
     value |-> job.priority_reason \o "\n[View Job](" \o job.url \o ")\n*" \o job.source \o "*"]

\* a field of the Telegram Finds embed
telegram_field(job) ==
    [name |-> "**" \o job.title \o "**",
     value |-> "[View Message](" \o job.url \o ")\n*" \o job.source \o "*"]

\* a line of the weak-match list (the bullet before the title left out)
weak_line(job) ==
    job.title \o " @ " \o job.company \o " - [View Job](" \o job.url \o ")\n"

\* DiscordNotifier.send_summary for a non-empty list: the payload it builds,
\* as the fields of the two embeds, the weak-match lines of the content and
\* the four numbers of the content's first lines
summary_payload(jobs) ==
    LET sorted_jobs == sorted_by_priority(jobs)
        telegram_jobs == SelectSeq(sorted_jobs, LAMBDA j : Contains(j.source, "Telegram"))
        other_jobs == SelectSeq(sorted_jobs, LAMBDA j : ~Contains(j.source, "Telegram"))
        perfect_matches == SelectSeq(other_jobs, LAMBDA j : j.priority = "PERFECT_MATCH")
        good_matches == SelectSeq(other_jobs, LAMBDA j : j.priority = "GOOD_MATCH")
        weak_matches == SelectSeq(other_jobs, LAMBDA j : j.priority = "WEAK_MATCH")
        top_matches == Take(perfect_matches \o good_matches, FIELD_CAP)
        telegram_shown == Take(telegram_jobs, FIELD_CAP)
        weak_shown == Take(weak_matches, FIELD_CAP)
    IN  [top_fields |-> [k \in 1..Len(top_matches) |-> top_field(top_matches[k])],
         telegram_fields |-> [k \in 1..Len(telegram_shown) |-> telegram_field(telegram_shown[k])],
         weak_lines |-> [k \in 1..Len(weak_shown) |-> weak_line(weak_shown[k])],
         found |-> [perfect |-> Len(perfect_matches), good |-> Len(good_matches),
                    weak |-> Len(weak_matches), telegram |-> Len(telegram_jobs)]]

Digits == <<"0", "1", "2", "3", "4", "5", "6", "7", "8", "9">>

\* str(n) for a natural number
RECURSIVE NumStr(_)
NumStr(n) ==
    IF n < 10 THEN Digits[n + 1] ELSE NumStr(n \div 10) \o Digits[(n % 10) + 1]

\* n new Jobs of one source and one priority, each with its own url
GroupJobs(n, source, rank) ==
    [k \in 1..n |->
        NewJob("Linux Support Engineer", "Acme", "https://jobs.example/" \o rank.priority
                   \o "/" \o source \o "/" \o NumStr(k), "Remote", source, rank)]

\* how many new Jobs a group has: none, one, the cap, more than the cap
GroupSizes == {0, 1, FIELD_CAP, MaxGroup}

\* the lists of new Jobs given to send_summary, in the order of the adapters
SummaryInputs ==
    {GroupJobs(p, "Web3.career",
               [priority |-> "PERFECT_MATCH",
                reason |-> "Perfect match: Title + Linux + Python/Bash"])
       \o GroupJobs(w, "Web3.career",
                    [priority |-> "WEAK_MATCH", reason |-> "Generic support role"])
       \o GroupJobs(g, "CryptoJobsList.com",
                    [priority |-> "GOOD_MATCH",
                     reason |-> "Good match: IT Support/Hardware/Network keywords"])
       \o GroupJobs(t, "Telegram (web3hiring)", telegram_rank) :
          p \in GroupSizes, w \in GroupSizes, g \in GroupSizes, t \in GroupSizes,
          telegram_rank \in
              {[priority |-> "GOOD_MATCH",
                reason |-> "Good match: IT Support/Hardware/Network keywords"],
               [priority |-> "WEAK_MATCH", reason |-> "No strong match criteria"]}}
        \ {<<>>}

\* send_summary builds the payload for a run's new Jobs
SummaryProbe ==
    /\ probe = NoProbe
    /\ \E jobs \in SummaryInputs :
          probe' = [op |-> "send_summary", new_jobs |-> jobs,
                    result |-> summary_payload(jobs)]
    /\ UNCHANGED progvars

\* rank_job(title, description) is called
RankProbe ==
    /\ probe = NoProbe
    /\ \E title \in Titles, description \in Descriptions :
          probe' = [op |-> "rank_job", title |-> title, description |-> description,
                    result |-> rank_job(title, description)]
    /\ UNCHANGED progvars

NextFn ==
    \/ RankProbe
    \/ ParseProbe
    \/ ScrapeProbe
    \/ DedupProbe
    \/ RunBodyProbe
    \/ NotifyProbe
    \/ SummaryProbe

SpecFn == Init /\ [][NextFn]_vars


(* ============================== claims ================================ *)

\* no other process has been started
Alone(p) == \A q \in Procs \ {p} : pc[q] = "idle"

\* C1: at no time are two pipeline runs both between a successful
\* acquire_lock() and their own release_lock().
MutualExclusion ==
    \A p, q \in Procs : p # q => ~(InRun(p) /\ InRun(q))

\* C2: of two acquire_lock calls that both start while no lock record exists
\* and both return with no release in between and before the record the
\* winner created is more than 900 seconds old, exactly one returns true and
\* the other returns false.
ExactlyOneAcquires ==
    \A p, q \in Procs :
        (/\ p # q
         /\ pc[p] \in CheckPcs /\ pc[q] \in CheckPcs
         /\ hist[p].race /\ hist[q].race)
        => acqResult[p] # acqResult[q]

RaceDecided ==
    \E p, q \in Procs :
        /\ p # q
        /\ pc[p] \in CheckPcs /\ pc[q] \in CheckPcs
        /\ hist[p].race /\ hist[q].race
        /\ acqResult[p] /\ ~acqResult[q]

SavedOnceInEveryRun ==
    \A p \in Procs : pc[p] = "run_finally" => hist[p].saveCalls = 1

SaveThenNotify ==
    \A p \in Procs :
        InRun(p) =>
            /\ hist[p].saveCalls <= 1
            /\ pc[p] = "save_open" =>
                   /\ hist[p].deduped
                   /\ hist[p].saveCalls = 0
                   /\ hist[p].delivery = "none"
                   /\ hist[p].notified = {}
            /\ pc[p] = "run_notify" => (hist[p].saveCalls = 1 /\ hist[p].deduped)
            /\ hist[p].delivery # "none" => hist[p].saveCalls = 1
            /\ (pc[p] = "run_finally" /\ pending[p] = "none") => hist[p].saveCalls = 1

NotifyLeavesStore ==
    \A p \in Procs :
        (pc[p] = "run_notify" /\ pc'[p] # pc[p]) => file' = file

\* C4 amended: every run that acquired the lock and is not cut short by an
\* interrupt calls save_seen_jobs exactly once, after the deduplication loop
\* and before send_summary or the console summary; no run calls it twice, and
\* the notification step leaves the store as it is.
PersistBeforeNotify == []SaveThenNotify /\ [][NotifyLeavesStore]_vars

NotifiedAfterSave ==
    \E p \in Procs :
        /\ pc[p] = "run_finally"
        /\ hist[p].delivery = "failed"
        /\ hist[p].saved
        /\ hist[p].saveCalls = 1

AtomicPersist ==
    \A p \in Procs : hist[p].loadObs # "partial"

EveryInvocationRuns ==
    \A p \in Procs : Alone(p) => hist[p].outcome # "skipped"

\* C9: an acquire_lock call that finds a lock record which no other process
\* touches during the call returns true, after deleting the record and one
\* further create, if the age it measured is above 900 seconds, and returns
\* false, leaving the record in place, if that age is 900 seconds or less; no
\* call attempts more than two creates.
StaleThreshold ==
    \A p \in Procs :
        /\ hist[p].creates <= 2
        /\ (pc[p] \in CheckPcs /\ hist[p].found /\ ~hist[p].touched) =>
              IF lock_age[p] > STALE_SECONDS
              THEN /\ acqResult[p]
                   /\ hist[p].removed
                   /\ hist[p].creates = 2
                   /\ lock.owner = p
                   /\ lock.level = Level(p)
              ELSE /\ ~acqResult[p]
                   /\ ~hist[p].removed
                   /\ hist[p].creates = 1
                   /\ [lock EXCEPT !.age = 0] = hist[p].obs

StaleLockRecovered ==
    \E p \in Procs :
        /\ pc[p] \in CheckPcs
        /\ hist[p].found /\ ~hist[p].touched
        /\ lock_age[p] > STALE_SECONDS
        /\ hist[p].obs.owner # p
        /\ acqResult[p]

\* C10: a call of acquire_lock() that returned false has not deleted the lock
\* record of another process's run in progress (and its caller then returns
\* without touching the store, the browser or the notifier).
ContentionLeavesLock ==
    \A p \in Procs :
        (pc[p] \in CheckPcs /\ ~acqResult[p]) => ~hist[p].removedLive

(* rank_job *)

\* the text rank_job searches: normalized title, a blank, normalized description
CombinedText(title, description) ==
    Strip(Lower(title)) \o " " \o Strip(Lower(description))

TextHas(text, phrases) == \E k \in phrases : Contains(text, k)

HasBlacklistPhrase(title, description) ==
    TextHas(CombinedText(title, description), BLACKLIST_TITLES \cup BLACKLIST_KEYWORDS)

\* C12: rank_job returns one of the four priorities with a reason for every
\* title and description, and returns BLACKLISTED whenever the combined
\* normalized text contains a phrase of BLACKLIST_TITLES or BLACKLIST_KEYWORDS,
\* whatever match phrases are present too.
BlacklistPrecedence ==
    probe.op = "rank_job" =>
        /\ probe.result.priority \in Priorities
        /\ probe.result.reason \in
              {"Contains blacklisted title/keyword", "Contains blacklisted keyword",
               "Perfect match: Title + Linux + Python/Bash",
               "Good match: IT Support/Hardware/Network keywords",
               "Generic support role", "No strong match criteria"}
        /\ HasBlacklistPhrase(probe.title, probe.description)
              <=> probe.result.priority = "BLACKLISTED"

BlacklistedDespiteMatch ==
    /\ probe.op = "rank_job"
    /\ probe.result.priority = "BLACKLISTED"
    /\ TextHas(Strip(Lower(probe.title)), PERFECT_TITLES)
    /\ TextHas(CombinedText(probe.title, probe.description), PERFECT_KEYWORDS.linux)
    /\ ~TextHas(Strip(Lower(probe.title)), BLACKLIST_TITLES)

\* C13: for a title and description that contain no blacklist phrase, rank_job
\* returns PERFECT_MATCH exactly when the title contains a PERFECT_TITLES phrase
\* and the combined text contains a Linux keyword and a scripting keyword;
\* otherwise GOOD_MATCH exactly when the title contains a GOOD_TITLES phrase or
\* the combined text contains a GOOD_KEYWORDS phrase; otherwise WEAK_MATCH, with
\* the reason 'Generic support role' exactly when the combined text contains
\* 'customer support' or the title contains 'support', and the reason
\* 'No strong match criteria' in every other case.
MatchRulesInOrder ==
    (probe.op = "rank_job" /\ ~HasBlacklistPhrase(probe.title, probe.description)) =>
        LET title == Strip(Lower(probe.title))
            combined == CombinedText(probe.title, probe.description)
            perfect == /\ TextHas(title, PERFECT_TITLES)
                       /\ TextHas(combined, {"linux", "ubuntu"})
                       /\ TextHas(combined, {"python", "bash", "shell scripting"})
            good == TextHas(title, GOOD_TITLES) \/ TextHas(combined, GOOD_KEYWORDS)
            generic == Contains(combined, "customer support") \/ Contains(title, "support")
        IN  probe.result =
               IF perfect
               THEN [priority |-> "PERFECT_MATCH",
                     reason |-> "Perfect match: Title + Linux + Python/Bash"]
               ELSE IF good
               THEN [priority |-> "GOOD_MATCH",
                     reason |-> "Good match: IT Support/Hardware/Network keywords"]
               ELSE IF generic
               THEN [priority |-> "WEAK_MATCH", reason |-> "Generic support role"]
               ELSE [priority |-> "WEAK_MATCH", reason |-> "No strong match criteria"]

PerfectTitleWithoutScripting ==
    /\ probe.op = "rank_job"
    /\ ~HasBlacklistPhrase(probe.title, probe.description)
    /\ TextHas(Strip(Lower(probe.title)), PERFECT_TITLES)
    /\ TextHas(CombinedText(probe.title, probe.description), PERFECT_KEYWORDS.linux)
    /\ probe.result.priority = "WEAK_MATCH"
    /\ probe.result.reason = "No strong match criteria"

(* parsers *)

\* C20: every Job an adapter's parser returns has a title that is trimmed, not
\* empty and at least 5 characters long.
TitleAtLeastFive ==
    (probe.op = "parse_job" /\ probe.result # None) =>
        /\ probe.result.title = Strip(probe.result.title)
        /\ Len(probe.result.title) >= 5

(* scrape() *)

\* the position of the first selector that yields an element, 0 when none does
FirstHit(found) ==
    LET hits == {k \in 1..Len(found) : found[k] # <<>>}
    IN  IF hits = {} THEN 0 ELSE CHOOSE k \in hits : \A j \in hits : k <= j

\* the Jobs of the elements of a list, in the order of the list
JobsOf(i, channel, elements) ==
    LET kept == SelectSeq(elements,
                          LAMBDA e : (IF i = 4 THEN Telegram_parse_job(e, channel)
                                      ELSE Parse(i, e)) # None)
    IN  [k \in 1..Len(kept) |-> IF i = 4 THEN Telegram_parse_job(kept[k], channel)
                                ELSE Parse(i, kept[k])]

\* C15: in Web3CareerScraper.scrape and CryptoJobsListScraper.scrape the parsed
\* elements are those of the first selector, in order, that yields an element;
\* a later selector is evaluated only when every earlier one yielded none; the
\* results of two selectors are never merged; and the list is empty only when
\* every selector yielded none.
FirstStrategyWins ==
    (probe.op = "scrape" /\ probe.scraper \in {1, 2} /\ probe.page.content) =>
        LET found == probe.page.found
            first == FirstHit(found)
        IN  /\ first = 0 => /\ probe.result.elements = <<>>
                            /\ probe.result.evaluated = Len(found)
            /\ first # 0 => /\ probe.result.elements = found[first]
                            /\ probe.result.evaluated = first
            /\ probe.result.jobs = JobsOf(probe.scraper, "", Take(probe.result.elements, ELEMENT_CAP))

LaterStrategyIgnored ==
    /\ probe.op = "scrape" /\ probe.scraper \in {1, 2} /\ probe.page.content
    /\ \E k, l \in 1..Len(probe.page.found) :
          /\ 1 < k /\ k < l
          /\ probe.page.found[k] # <<>> /\ probe.page.found[l] # <<>>
          /\ probe.page.found[k] # probe.page.found[l]
          /\ probe.result.elements = probe.page.found[k]
          /\ probe.result.jobs # <<>>

\* the elements scrape() of adapter i hands to its parser: the first 20 elements,
\* the first 30 headings, the last 10 messages of a channel
Capped(i, elements) ==
    CASE i \in {1, 2} -> Take(elements, 20)
      [] i = 3 -> Take(elements, 30)
      [] i = 4 -> LastN(elements, 10)

\* the Jobs of one Telegram channel whose page was loaded
ChannelJobs(pages, c) ==
    IF pages[c].content THEN JobsOf(4, Channels[c], Capped(4, pages[c].found[1])) ELSE <<>>

\* C19: the list scrape() returns holds, in document order, exactly the Jobs of
\* the elements within the adapter's cap that the parser accepts; an element
\* that raises or is rejected does not keep the elements after it from being
\* parsed.
ElementFailureIsolated ==
    probe.op = "scrape" =>
        probe.result.jobs =
            CASE probe.scraper \in {1, 2} ->
                    IF probe.page.content
                    THEN JobsOf(probe.scraper, "", Capped(probe.scraper, probe.result.elements))
                    ELSE <<>>
              [] probe.scraper = 3 ->
                    IF probe.page.content /\ probe.page.main
                    THEN JobsOf(3, "", Capped(3, probe.page.found[1]))
                    ELSE <<>>
              [] probe.scraper = 4 ->
                    ChannelJobs(probe.page.channels, 1) \o ChannelJobs(probe.page.channels, 2)
                        \o ChannelJobs(probe.page.channels, 3) \o ChannelJobs(probe.page.channels, 4)

ParsedAfterFailedElement ==
    /\ probe.op = "scrape"
    /\ \E k, l \in 1..Len(probe.result.elements) :
          /\ k < l
          /\ probe.result.elements[k].broken
          /\ ~probe.result.elements[l].broken
          /\ \E n \in 1..Len(probe.result.jobs) :
                probe.result.jobs[n] \in
                    {Parse(probe.scraper, probe.result.elements[l]),
                     Telegram_parse_job(probe.result.elements[l], Channels[2])}

(* deduplication *)

\* the positions of a batch whose url is not in the loaded set and at no earlier
\* position of the batch
FirstUnseen(batch, loaded) ==
    {k \in 1..Len(batch) :
        /\ batch[k].url \notin loaded
        /\ \A j \in 1..(k - 1) : batch[j].url # batch[k].url}

\* C14: the deduplication loop yields, in input order, exactly the Jobs whose url
\* is neither in the loaded set nor earlier in the batch; the set it leaves is
\* the loaded set with the url of every Job of the batch; and the loop run again
\* on the same batch with that set yields no Job and leaves the set as it is.
DedupPartition ==
    probe.op = "dedup" =>
        LET keep == FirstUnseen(probe.batch, probe.loaded)
        IN  /\ Len(probe.result.new) = Cardinality(keep)
            /\ \A n \in 1..Len(probe.result.new) :
                  probe.result.new[n] =
                      probe.batch[CHOOSE k \in keep : Cardinality({j \in keep : j < k}) = n - 1]
            /\ probe.result.seen = probe.loaded \cup {probe.batch[k].url : k \in 1..Len(probe.batch)}
            /\ probe.again = [new |-> <<>>, seen |-> probe.result.seen]

DuplicateWithinBatch ==
    /\ probe.op = "dedup"
    /\ Len(probe.batch) = 3
    /\ probe.batch[1].url \in probe.loaded
    /\ probe.batch[2].url = probe.batch[3].url
    /\ probe.batch[2] # probe.batch[3]
    /\ probe.result.new = <<probe.batch[2]>>

(* the run *)

\* what adapter i contributes to a run
Contribution(i) ==
    IF probe.adapters[i].raises THEN <<>> ELSE probe.adapters[i].jobs

\* C16: the list scrape_all_jobs returns is the lists of the four adapters in
\* their fixed order, each taken once whatever the adapters before it did; an
\* adapter whose scrape() raises or gets no page contributes no Job; and the
\* run goes on to deduplicate and to save.
AdapterFailureIsolated ==
    probe.op = "run" =>
        /\ probe.result.jobs =
              Contribution(1) \o Contribution(2) \o Contribution(3) \o Contribution(4)
        /\ \A i \in Scrapers :
              (probe.adapters[i].raises \/ probe.adapters[i].page = NoContent(i))
                 => Contribution(i) = <<>>
        /\ probe.result.saved =
              probe.result.loaded \cup {probe.result.jobs[k].url : k \in 1..Len(probe.result.jobs)}
        /\ \A k \in 1..Len(probe.result.new_jobs) : probe.result.new_jobs[k].url \in probe.result.saved

CollectedAfterRaise ==
    /\ probe.op = "run"
    /\ probe.adapters[1].raises
    /\ probe.adapters[2].page = NoContent(2)
    /\ ~probe.adapters[3].raises /\ Contribution(3) # <<>>
    /\ probe.adapters[4].raises
    /\ probe.result.jobs = Contribution(3)
    /\ probe.result.new_jobs # <<>>
    /\ probe.result.saved # probe.result.loaded

\* the Jobs of a list, as a set
JobsIn(jobs) == {jobs[k] : k \in 1..Len(jobs)}

\* a Job that is not BLACKLISTED, by its priority and by its text
NotBlacklisted(job) ==
    /\ job.priority # "BLACKLISTED"
    /\ ~HasBlacklistPhrase(job.title, job.description)

\* C11: no adapter's scrape() returns a BLACKLISTED Job; no url enters the seen
\* set of a run on account of a BLACKLISTED posting; and no BLACKLISTED Job is
\* among the Jobs the run hands to the notifier.
NoBlacklistedPosting ==
    /\ probe.op = "scrape" => \A job \in JobsIn(probe.result.jobs) : NotBlacklisted(job)
    /\ probe.op = "run" =>
          /\ \A i \in Scrapers : \A job \in JobsIn(Contribution(i)) : NotBlacklisted(job)
          /\ \A url \in probe.result.saved \ probe.result.loaded :
                \E job \in JobsIn(probe.result.jobs) : job.url = url /\ NotBlacklisted(job)
          /\ \A job \in JobsIn(probe.result.new_jobs) : NotBlacklisted(job)

BlacklistedPostingDropped ==
    /\ probe.op = "run"
    /\ \A i \in Scrapers : ~probe.adapters[i].raises /\ probe.adapters[i].page = RunPage(i)
    /\ probe.result.loaded = {}
    /\ Len(probe.result.new_jobs) >= 4
    /\ "https://web3.career/job/1" \in probe.result.saved
    /\ probe.result.saved \cap
          {"https://web3.career/job/3", "https://cryptojobslist.com/job/3",
           "https://cryptocurrencyjobs.co/legal/acme/", "https://t.me/web3hiring/103"} = {}

\* C18: load_seen_jobs returns the empty set when seen_jobs.json is absent or
\* cannot be read or decoded, and the stored set otherwise; it does not raise,
\* and in each case the run goes on to scrape, deduplicate and save with the
\* set it returned.
LoadNeverFails ==
    probe.op = "run" =>
        /\ probe.result.loaded =
              IF probe.file.state = "valid" /\ ~probe.ioerror THEN probe.file.urls ELSE {}
        /\ probe.result.saved =
              probe.result.loaded \cup {job.url : job \in JobsIn(probe.result.jobs)}

RunAfterUnreadableStore ==
    /\ probe.op = "run"
    /\ probe.file.state = "valid" /\ probe.file.urls # {} /\ probe.ioerror
    /\ probe.result.loaded = {}
    /\ probe.result.new_jobs # <<>>
    /\ probe.file.urls \subseteq probe.result.saved

(* notification *)

\* C17: when the post to the webhook fails (connection error, timeout or an
\* HTTP error status), the run prints the console summary of the new Jobs and
\* posts no second time.
DeliveryFailureFallsBack ==
    (/\ probe.op = "notify"
     /\ probe.new_jobs # <<>>
     /\ probe.webhook_url # ""
     /\ probe.response # "ok") =>
        /\ probe.result.posts = 1
        /\ Len(probe.result.console) = Len(probe.new_jobs)
        /\ JobsIn(probe.result.console) = JobsIn(probe.new_jobs)

(* the lock over the life of a process *)

\* main()'s acquire_lock() returned true and main() has not ended
InMain(p) ==
    \/ frame[p] # "none"
    \/ pc[p] \in {"main_loop", "main_except", "main_release"}

\* C21: from the moment main()'s acquire_lock() returned true until main()
\* ends, the lock record main created is present; with no other process
\* started, nothing the process itself does in between deletes or replaces it.
MainLockHeld ==
    \A p \in Procs :
        (Alone(p) /\ InMain(p)) => (lock.owner = p /\ lock.level = "main")

\* process p's run ends its finally block with release_lock(), and that call
\* removes the lock file
RunReleases(p) ==
    /\ pc[p] = "run_finally" /\ pc'[p] # "run_finally"
    /\ lock # NoLock /\ lock' = NoLock

\* C22: the release_lock() of a run never deletes a lock record that a
\* different run created: when a run's release removes the lock file, the
\* record in it is not the record of another process's run.
ReleaseOwnLockOnly ==
    [][\A p \in Procs :
          RunReleases(p) => ~(lock.owner # p /\ lock.level = "run")]_vars

(* the store and the notifier *)

\* the urls a reader finds in seen_jobs.json
DurableUrls == IF file.state = "valid" THEN file.urls ELSE {}

\* process p's run calls notifier.send_summary(new_jobs)
SendSummaryInvoked(p) ==
    /\ pc[p] = "run_notify" /\ pc'[p] # "run_notify"
    /\ hist'[p].delivery \in {"sent", "failed"}

\* C23: whenever a run calls send_summary, its save_seen_jobs has written the
\* file and every url of the postings passed to send_summary is in
\* seen_jobs.json; checked for a process running with no other process started.
NotifiedImpliesStored ==
    [][\A p \in Procs :
          (Alone(p) /\ SendSummaryInvoked(p)) =>
              /\ hist[p].saved
              /\ UrlsOf(new_jobs[p]) \subseteq DurableUrls]_vars

\* the url of a new Job is in a field of an embed or in a weak-match line
InPayload(job, payload) ==
    LET link == "(" \o job.url \o ")"
    IN  \/ \E k \in 1..Len(payload.top_fields) : Contains(payload.top_fields[k].value, link)
        \/ \E k \in 1..Len(payload.telegram_fields) :
               Contains(payload.telegram_fields[k].value, link)
        \/ \E k \in 1..Len(payload.weak_lines) : Contains(payload.weak_lines[k], link)

\* C24: every new Job given to send_summary is in the payload it builds, as a
\* field of Top Matches, a field of Telegram Finds or a weak-match line,
\* however many new Jobs a group has.
NoPostingConsumed ==
    probe.op = "send_summary" =>
        \A k \in 1..Len(probe.new_jobs) : InPayload(probe.new_jobs[k], probe.result)

====
